---- MODULE Spec2Model ----
(***************************************************************************)
(* seekstream.File (src/file.go): a temp file that one goroutine appends   *)
(* to while others read it.  The File has no mutex: f.r, f.w, f.done and   *)
(* f.closed are plain fields, and the only wake mechanism is the           *)
(* unbuffered channel f.ready.  Each action below is one statement (one    *)
(* access to shared state) of one method, run by one goroutine; goroutines *)
(* interleave statement by statement.                                      *)
(***************************************************************************)
EXTENDS Integers, Sequences, FiniteSets, TLC

\* ---------------------------------------------------------------- bounds
\* Write calls the producer makes.
MaxWrites == 2
\* Longest slice handed to Write.
MaxChunk == 1
\* Longest buffer handed to Read / ReadAt.
MaxBuf == 2
\* Largest offset handed to ReadAt.
MaxOff == 1
\* Largest offset handed to Seek.
MaxSeek == 2
\* Calls a lone consumer goroutine makes; two concurrent consumers make one
\* fewer between them.
MaxCalls == 3
\* DoneWriting, Close and Move calls made beside a lone consumer or by the
\* producer and the Closer between them; one fewer beside two consumers.
MaxFinish == 2

\* newPos of Seek(_, io.SeekEnd): 1<<63 - 1 in the source.  It is only ever
\* compared with f.w, so any value above every reachable f.w behaves alike.
SeekEndPos == 2147483647

\* whence values of package io, and one that is none of them.
SeekStart == 0
SeekCurrent == 1
SeekEnd == 2
BadWhence == -1

\* --------------------------------------------------------------- threads
Writer == "writer"
AllConsumers == {"c1", "c2"}
\* A goroutine that is neither the producer nor a consumer and calls
\* DoneWriting, Close, Move or Remove.
Closer == "closer"
Threads == {Writer, Closer} \cup AllConsumers

VARIABLES
  w,            \* f.w: bytes committed by Write
  r,            \* f.r: the cursor of Read / Seek
  done,         \* f.done
  closed,       \* f.closed
  readyClosed,  \* close(f.ready) has run
  data,         \* contents of the backing os.File
  pos,          \* the os.File's own read/seek offset
  fopen,        \* the os.File is open
  panicked,     \* "none", or the runtime panic that ended the process
  pc,           \* pc[t]: where goroutine t stands
  op,           \* op[t]: the method goroutine t is in
  loc,          \* loc[t]: that call's arguments, locals and results
  consumers,    \* the goroutines of this run besides the producer (fixed
                \* by Init): consumers, and possibly the Closer
  nfin,         \* DoneWriting, Close and Move calls made so far
  nwrites,      \* Write calls made so far
  ncalls,       \* calls the consumers have made so far
  seekUsed,     \* the only consumer has called Seek
  seqlog        \* bytes the only consumer's Reads returned, in order, while
                \* ~seekUsed

vars == <<w, r, done, closed, readyClosed, data, pos, fopen, panicked,
          pc, op, loc, consumers, nfin, nwrites, ncalls, seekUsed, seqlog>>

shared == <<w, r, done, closed, readyClosed, data, pos, fopen, panicked>>
ghost == <<consumers, nfin, nwrites, ncalls, seekUsed, seqlog>>

\* ---------------------------------------------------------------- helpers
Min(a, b) == IF a < b THEN a ELSE b
Max(a, b) == IF a > b THEN a ELSE b

\* A call's locals.  buf: len(p) still to fill; plen: len(p) at the call;
\* off: the offset the call works at; off0: its value at the call;
\* whence, newPos: Seek's; n, err: the results; got: the bytes delivered;
\* chunk: the slice handed to Write; late: the call began after DoneWriting
\* had returned; shut: the call began after a Close had set f.closed;
\* byClose: a receive of the call returned because f.ready was closed.
NoLocals ==
  [buf |-> 0, plen |-> 0, off |-> 0, off0 |-> 0, whence |-> 0, newPos |-> 0,
   n |-> 0, err |-> "nil", got |-> <<>>, chunk |-> <<>>, late |-> FALSE,
   shut |-> FALSE, byClose |-> FALSE]

\* The goroutines parked in <-f.ready.
Parked == {t \in Threads : pc[t] = "parked"}

\* Where a goroutine continues once <-f.ready returns: the head of the loop
\* the receive stands in.
LoopHead(t) ==
  CASE op[t] \in {"Read", "ReadAt"} -> "blk_w"
    [] op[t] = "Seek" -> "sk_test"
    [] OTHER -> "wt_test"

\* DoneWriting has returned: done is set and the channel is closed.
Finalized == done /\ readyClosed

\* The locals of a call that takes no arguments, or before its arguments
\* are set.
Fresh == [NoLocals EXCEPT !.late = Finalized, !.shut = closed]

\* util.go subSlice: p[:size] when size < len(p), else p.  The result's
\* length; a negative size makes p[:size] panic, reported as -1.
SubSliceLen(plen, size) ==
  IF size < plen THEN (IF size < 0 THEN -1 ELSE size) ELSE plen

\* os.File.WriteAt(chunk[1..n], at): the file after n bytes are stored at
\* offset at.
StoreAt(file, chunk, n, at) ==
  [i \in 1..Max(Len(file), at + n) |->
     IF i > at /\ i <= at + n THEN chunk[i - at]
     ELSE IF i <= Len(file) THEN file[i] ELSE 0]

\* The bytes of file at offsets [at, at+n).
Slice(file, at, n) == [i \in 1..n |-> file[at + i]]

Running == panicked = "none"

\* Calls the consumers make: MaxCalls by a lone consumer, one fewer by two
\* consumers between them, two fewer by a consumer beside the Closer.
CallBudget ==
  IF consumers = {"c1"} THEN MaxCalls
  ELSE IF Closer \in consumers THEN MaxCalls - 2 ELSE MaxCalls - 1

\* len(p) of the buffers handed to Read and ReadAt: every length up to
\* MaxBuf by a lone consumer, MaxBuf otherwise.
BufLens == IF consumers = {"c1"} THEN 0..MaxBuf ELSE {MaxBuf}

\* Write calls the producer makes: MaxWrites beside a lone consumer, else
\* one fewer.
WriteBudget == IF consumers = {"c1"} THEN MaxWrites ELSE MaxWrites - 1

\* Consumer self may start a call, which is then counted.  Of two
\* consumers, which are interchangeable, c1 makes the first call and no
\* other, and c2 calls while c1 is in its call: what a consumer does in
\* several calls on its own, the lone consumer shows.
MayCall(self) ==
  /\ Running /\ self \in consumers \cap AllConsumers /\ pc[self] = "idle"
  /\ ncalls < CallBudget
  /\ self = "c2" => pc["c1"] # "idle"
  /\ (self = "c1" /\ consumers = AllConsumers) => ncalls = 0

Counted(self) == ncalls' = ncalls + 1

\* ------------------------------------------------------------------- Init
InitFile ==
  /\ w = 0 /\ r = 0 /\ done = FALSE /\ closed = FALSE
  /\ readyClosed = FALSE
  /\ data = <<>> /\ pos = 0 /\ fopen = TRUE
  /\ panicked = "none"
  /\ pc = [t \in Threads |-> "idle"]
  /\ op = [t \in Threads |-> "none"]
  /\ loc = [t \in Threads |-> NoLocals]
  /\ nfin = 0
  /\ nwrites = 0
  /\ ncalls = 0
  /\ seekUsed = FALSE /\ seqlog = <<>>

\* One consumer goroutine.
Init == InitFile /\ consumers = {"c1"}

\* Two consumer goroutines sharing the File.
InitPair == InitFile /\ consumers = AllConsumers

\* One consumer goroutine, and the Closer.
InitCloser == InitFile /\ consumers = {"c1", Closer}

\* Goroutine self may start DoneWriting, Close, Move or Remove: the producer,
\* or the Closer where there is one.
MayFinish(self) ==
  /\ Running /\ pc[self] = "idle"
  /\ self = Writer \/ (self = Closer /\ Closer \in consumers)
  /\ nfin < (IF consumers = AllConsumers THEN MaxFinish - 1 ELSE MaxFinish)
  /\ nfin' = nfin + 1

\* A call's return: the goroutine is idle again.
Return(self) ==
  /\ Running /\ pc[self] = "ret"
  /\ pc' = [pc EXCEPT ![self] = "idle"]
  /\ op' = [op EXCEPT ![self] = "none"]
  /\ loc' = [loc EXCEPT ![self] = NoLocals]
  /\ UNCHANGED <<shared, ghost>>

\* ------------------------------------------------------------------ Write
\* Write(p): the call.  The producer copies a stream whose k-th byte is k,
\* and p is its next 1..MaxChunk bytes after those already committed.
WriteCall(self) ==
  /\ Running /\ self = Writer /\ pc[self] = "idle"
  /\ nwrites < WriteBudget
  /\ \E len \in 1..MaxChunk :
       loc' = [loc EXCEPT ![self] =
                 [Fresh EXCEPT !.chunk = [i \in 1..len |-> w + i]]]
  /\ pc' = [pc EXCEPT ![self] = "w_chk"]
  /\ op' = [op EXCEPT ![self] = "Write"]
  /\ nwrites' = nwrites + 1
  /\ UNCHANGED <<shared, consumers, nfin, ncalls, seekUsed, seqlog>>

\* WriteChk without its test of f.done.
WriteChkUnguarded(self) ==
  /\ Running /\ pc[self] = "w_chk"
  /\ pc' = [pc EXCEPT ![self] = "w_io"]
  /\ UNCHANGED <<shared, op, loc, ghost>>

\* if f.done { return 0, errDoneWriting }
WriteChk(self) ==
  /\ Running /\ pc[self] = "w_chk"
  /\ IF done
       THEN /\ pc' = [pc EXCEPT ![self] = "ret"]
            /\ loc' = [loc EXCEPT ![self].n = 0, ![self].err = "errDoneWriting"]
       ELSE /\ pc' = [pc EXCEPT ![self] = "w_io"]
            /\ UNCHANGED loc
  /\ UNCHANGED <<shared, op, ghost>>

\* n, err := f.file.WriteAt(p, f.w): all of p is stored, or a storage error
\* leaves only its first n bytes stored.
WriteIO(self) ==
  /\ Running /\ pc[self] = "w_io"
  /\ IF ~fopen
       THEN /\ loc' = [loc EXCEPT ![self].n = 0, ![self].err = "ErrClosed"]
            /\ UNCHANGED data
       ELSE \E n \in 0..Len(loc[self].chunk) :
              /\ data' = StoreAt(data, loc[self].chunk, n, w)
              /\ loc' = [loc EXCEPT
                           ![self].n = n,
                           ![self].err = IF n < Len(loc[self].chunk)
                                           THEN "EIO" ELSE "nil"]
  /\ pc' = [pc EXCEPT ![self] = "w_adv"]
  /\ UNCHANGED <<w, r, done, closed, readyClosed, pos, fopen, panicked, op, ghost>>

\* f.w += int64(n)
WriteAdv(self) ==
  /\ Running /\ pc[self] = "w_adv"
  /\ w' = w + loc[self].n
  /\ pc' = [pc EXCEPT ![self] = "w_wake"]
  /\ UNCHANGED <<r, done, closed, readyClosed, data, pos, fopen, panicked,
                 op, loc, ghost>>

\* WriteWake without the default arm: f.ready <- struct{}{} waits for a
\* goroutine to receive.
WriteWakeBlocking(self) ==
  /\ Running /\ pc[self] = "w_wake"
  /\ IF readyClosed
       THEN /\ panicked' = "send on closed channel"
            /\ UNCHANGED pc
       ELSE /\ UNCHANGED panicked
            /\ \E t \in Parked :
                 pc' = [pc EXCEPT ![self] = "ret", ![t] = LoopHead(t)]
  /\ UNCHANGED <<w, r, done, closed, readyClosed, data, pos, fopen,
                 op, loc, ghost>>

\* select { case f.ready <- struct{}{}: default: }: the send goes through
\* to one goroutine parked in <-f.ready when there is one, else the default
\* arm runs; a send on a closed channel panics.
WriteWake(self) ==
  /\ Running /\ pc[self] = "w_wake"
  /\ IF readyClosed
       THEN /\ panicked' = "send on closed channel"
            /\ UNCHANGED pc
       ELSE /\ UNCHANGED panicked
            /\ IF Parked = {}
                 THEN pc' = [pc EXCEPT ![self] = "ret"]
                 ELSE \E t \in Parked :
                        pc' = [pc EXCEPT ![self] = "ret", ![t] = LoopHead(t)]
  /\ UNCHANGED <<w, r, done, closed, readyClosed, data, pos, fopen,
                 op, loc, ghost>>

\* ------------------------------------------------------------ DoneWriting
\* Close, and Move, which begins with a call of Close.  Remove is Move with
\* os.Remove in the place of os.Rename: "Move" stands for both.
Closing == {"Close", "Move"}

\* After DoneWriting's body: back to the caller, or on into Close.
AfterDone(t) == IF op[t] \in Closing THEN "c_fclose" ELSE "ret"

DoneCall(self) ==
  /\ MayFinish(self)
  /\ pc' = [pc EXCEPT ![self] = "d_chk"]
  /\ op' = [op EXCEPT ![self] = "DoneWriting"]
  /\ loc' = [loc EXCEPT ![self] = Fresh]
  /\ UNCHANGED <<shared, consumers, nwrites, ncalls, seekUsed, seqlog>>

\* DoneChk without the test: DoneWriting sets f.done and closes f.ready
\* every time.
DoneChkNoTest(self) ==
  /\ Running /\ pc[self] = "d_chk"
  /\ pc' = [pc EXCEPT ![self] = "d_set"]
  /\ UNCHANGED <<shared, op, loc, ghost>>

\* if !f.done {
DoneChk(self) ==
  /\ Running /\ pc[self] = "d_chk"
  /\ pc' = [pc EXCEPT ![self] = IF done THEN AfterDone(self) ELSE "d_set"]
  /\ UNCHANGED <<shared, op, loc, ghost>>

\* f.done = true
DoneSet(self) ==
  /\ Running /\ pc[self] = "d_set"
  /\ done' = TRUE
  /\ pc' = [pc EXCEPT ![self] = "d_close"]
  /\ UNCHANGED <<w, r, closed, readyClosed, data, pos, fopen, panicked,
                 op, loc, ghost>>

\* close(f.ready): every goroutine parked in <-f.ready continues; closing a
\* closed channel panics.
DoneClose(self) ==
  /\ Running /\ pc[self] = "d_close"
  /\ IF readyClosed
       THEN /\ panicked' = "close of closed channel"
            /\ UNCHANGED <<pc, loc, readyClosed>>
       ELSE /\ readyClosed' = TRUE
            /\ pc' = [t \in Threads |->
                        IF t = self THEN AfterDone(self)
                        ELSE IF pc[t] = "parked" THEN LoopHead(t) ELSE pc[t]]
            /\ loc' = [t \in Threads |->
                         IF pc[t] = "parked"
                           THEN [loc[t] EXCEPT !.byClose = TRUE] ELSE loc[t]]
            /\ UNCHANGED panicked
  /\ UNCHANGED <<w, r, done, closed, data, pos, fopen, op, ghost>>

\* ------------------------------------------------------------------ Close
\* After a Close that returned nil: back to the caller of Close, or on to
\* the os.Rename of Move (the os.Remove of Remove).
AfterClose(t) == IF op[t] = "Close" THEN "ret" ELSE "c_fs"

\* Close(), or Move(path) (Remove()) up to its call of Close:
\* if f.closed { return nil }; then f.DoneWriting()
CloseCall(self) ==
  /\ MayFinish(self)
  /\ \E m \in Closing : op' = [op EXCEPT ![self] = m]
  /\ loc' = [loc EXCEPT ![self] = Fresh]
  /\ pc' = [pc EXCEPT ![self] = IF closed THEN AfterClose(self)' ELSE "d_chk"]
  /\ UNCHANGED <<shared, consumers, nwrites, ncalls, seekUsed, seqlog>>

\* err := f.file.Close(); if err != nil { return err }.  os.File.Close
\* gives up the descriptor also when it reports an error, and reports
\* ErrClosed for a file already closed.
CloseFile(self) ==
  /\ Running /\ pc[self] = "c_fclose"
  /\ fopen' = FALSE
  /\ IF fopen
       THEN \E e \in {"nil", "EIO"} :
              /\ loc' = [loc EXCEPT ![self].err = e]
              /\ pc' = [pc EXCEPT ![self] = IF e = "nil" THEN "c_set" ELSE "ret"]
       ELSE /\ loc' = [loc EXCEPT ![self].err = "ErrClosed"]
            /\ pc' = [pc EXCEPT ![self] = "ret"]
  /\ UNCHANGED <<w, r, done, closed, readyClosed, data, pos, panicked, op, ghost>>

\* f.closed = true; return nil
CloseSet(self) ==
  /\ Running /\ pc[self] = "c_set"
  /\ closed' = TRUE
  /\ pc' = [pc EXCEPT ![self] = AfterClose(self)]
  /\ UNCHANGED <<w, r, done, readyClosed, data, pos, fopen, panicked,
                 op, loc, ghost>>

\* return os.Rename(f.file.Name(), path) / return os.Remove(f.file.Name()):
\* the file system, which the File does not own, lets it succeed or fail.
CloseFs(self) ==
  /\ Running /\ pc[self] = "c_fs"
  /\ \E e \in {"nil", "ENOENT"} : loc' = [loc EXCEPT ![self].err = e]
  /\ pc' = [pc EXCEPT ![self] = "ret"]
  /\ UNCHANGED <<shared, op, ghost>>

\* ------------------------------------------------------ readCommon, block
\* ReadCommon without the case off < 0.
ReadCommonAnyOffset(off) ==
  IF closed THEN <<"ret", "errAlreadyClosed">>
  ELSE <<"blk_w", "nil">>

\* readCommon(off): the checks before block(off).  The next pc and error.
ReadCommon(off) ==
  IF closed THEN <<"ret", "errAlreadyClosed">>
  ELSE IF off < 0 THEN <<"ret", "errInvalidOffset">>
  ELSE <<"blk_w", "nil">>

\* BlockTestW with the loop condition off > f.w.
BlockTestWStrict(self) ==
  /\ Running /\ pc[self] = "blk_w"
  /\ pc' = [pc EXCEPT ![self] =
              IF loc[self].off > w THEN "blk_done"
              ELSE IF op[self] = "Read" THEN "rd_sub" ELSE "ra_io"]
  /\ UNCHANGED <<shared, op, loc, ghost>>

\* block: for off >= f.w {
BlockTestW(self) ==
  /\ Running /\ pc[self] = "blk_w"
  /\ pc' = [pc EXCEPT ![self] =
              IF loc[self].off >= w THEN "blk_done"
              ELSE IF op[self] = "Read" THEN "rd_sub" ELSE "ra_io"]
  /\ UNCHANGED <<shared, op, loc, ghost>>

\* block: if f.done { return io.EOF }.  Read returns (0, EOF), ReadAt
\* (pLen - len(p), EOF).
BlockTestDone(self) ==
  /\ Running /\ pc[self] = "blk_done"
  /\ IF done
       THEN /\ pc' = [pc EXCEPT ![self] = "ret"]
            /\ loc' = [loc EXCEPT ![self].n = loc[self].plen - loc[self].buf,
                                  ![self].err = "EOF"]
       ELSE /\ pc' = [pc EXCEPT ![self] = "recv"]
            /\ UNCHANGED loc
  /\ UNCHANGED <<shared, op, ghost>>

\* <-f.ready: returns at once on a closed channel, else the goroutine parks
\* until a send or the close.
Recv(self) ==
  /\ Running /\ pc[self] = "recv"
  /\ pc' = [pc EXCEPT ![self] = IF readyClosed THEN LoopHead(self) ELSE "parked"]
  /\ loc' = [loc EXCEPT ![self].byClose = @ \/ readyClosed]
  /\ UNCHANGED <<shared, op, ghost>>

\* ------------------------------------------------------------------- Read
\* Read(p): err := f.readCommon(f.r)
ReadCall(self) ==
  /\ MayCall(self) /\ Counted(self)
  /\ \E len \in BufLens :
       loc' = [loc EXCEPT ![self] =
                 [Fresh EXCEPT !.buf = len, !.plen = len, !.off = r,
                               !.off0 = r,
                                  !.err = ReadCommon(r)[2]]]
  /\ pc' = [pc EXCEPT ![self] = ReadCommon(r)[1]]
  /\ op' = [op EXCEPT ![self] = "Read"]
  /\ UNCHANGED <<shared, consumers, nfin, nwrites, seekUsed, seqlog>>

\* p = subSlice(p, int(f.w-f.r))
ReadSub(self) ==
  /\ Running /\ pc[self] = "rd_sub"
  /\ LET len == SubSliceLen(loc[self].buf, w - r) IN
       IF len < 0
         THEN /\ panicked' = "slice bounds out of range"
              /\ UNCHANGED <<pc, loc>>
         ELSE /\ loc' = [loc EXCEPT ![self].buf = len]
              /\ pc' = [pc EXCEPT ![self] = "rd_io"]
              /\ UNCHANGED panicked
  /\ UNCHANGED <<w, r, done, closed, readyClosed, data, pos, fopen, op, ghost>>

\* n, err := f.file.Read(p): reads at the os.File's own offset and advances
\* it; (0, nil) for an empty p, (0, EOF) at the end of the file.
ReadIO(self) ==
  /\ Running /\ pc[self] = "rd_io"
  /\ LET avail == Max(Len(data) - pos, 0)
         n == IF fopen THEN Min(loc[self].buf, avail) ELSE 0
         got == Slice(data, pos, n)
     IN /\ loc' = [loc EXCEPT
                     ![self].n = n,
                     ![self].got = got,
                     ![self].err = IF ~fopen THEN "ErrClosed"
                                   ELSE IF loc[self].buf > 0 /\ n = 0 THEN "EOF"
                                   ELSE "nil"]
        /\ pos' = pos + n
        /\ seqlog' = IF seekUsed \/ consumers # {"c1"}
                       THEN seqlog ELSE seqlog \o got
  /\ pc' = [pc EXCEPT ![self] = "rd_adv"]
  /\ UNCHANGED <<w, r, done, closed, readyClosed, data, fopen, panicked, op,
                 consumers, nfin, nwrites, ncalls, seekUsed>>

\* f.r += int64(n); return n, err
ReadAdv(self) ==
  /\ Running /\ pc[self] = "rd_adv"
  /\ r' = r + loc[self].n
  /\ pc' = [pc EXCEPT ![self] = "ret"]
  /\ UNCHANGED <<w, done, closed, readyClosed, data, pos, fopen, panicked,
                 op, loc, ghost>>

\* ----------------------------------------------------------------- ReadAt
\* ReadAt(p, off): err := f.readCommon(off)
ReadAtCall(self) ==
  /\ MayCall(self) /\ Counted(self)
  /\ \E len \in BufLens, off \in -1..MaxOff :
       /\ off < 0 => len = MaxBuf
       /\ loc' = [loc EXCEPT ![self] =
                    [Fresh EXCEPT !.buf = len, !.plen = len, !.off = off,
                                  !.off0 = off,
                                     !.err = ReadCommon(off)[2]]]
       /\ pc' = [pc EXCEPT ![self] = ReadCommon(off)[1]]
  /\ op' = [op EXCEPT ![self] = "ReadAt"]
  /\ UNCHANGED <<shared, consumers, nfin, nwrites, seekUsed, seqlog>>

\* n, err = f.file.ReadAt(subSlice(p, int(f.w-off)), off); p = p[n:];
\* off += int64(n); if err != nil || len(p) == 0 { break }; then
\* f.block(off) again.  os.File.ReadAt gives EOF when the file ends before
\* the slice is full.
ReadAtIO(self) ==
  /\ Running /\ pc[self] = "ra_io"
  /\ LET l == loc[self]
         len == SubSliceLen(l.buf, w - l.off)
         avail == Max(Len(data) - l.off, 0)
         n == IF fopen THEN Min(len, avail) ELSE 0
         err == IF ~fopen THEN "ErrClosed"
                ELSE IF n < len THEN "EOF" ELSE "nil"
         out == err # "nil" \/ l.buf - n = 0
     IN IF len < 0
          THEN /\ panicked' = "slice bounds out of range"
               /\ UNCHANGED <<pc, loc>>
          ELSE /\ loc' = [loc EXCEPT
                            ![self].buf = l.buf - n,
                            ![self].off = l.off + n,
                            ![self].got = l.got \o Slice(data, l.off, n),
                            ![self].n = IF out THEN l.plen - (l.buf - n) ELSE 0,
                            ![self].err = err]
               /\ pc' = [pc EXCEPT ![self] = IF out THEN "ret" ELSE "blk_w"]
               /\ UNCHANGED panicked
  /\ UNCHANGED <<w, r, done, closed, readyClosed, data, pos, fopen, op, ghost>>

\* ------------------------------------------------------------------- Seek
\* Seek(off, whence): the switch that sets newPos.
SeekCall(self) ==
  /\ MayCall(self) /\ Counted(self)
  /\ \E off \in -1..MaxSeek, whence \in {SeekStart, SeekCurrent, SeekEnd, BadWhence} :
       /\ whence = SeekCurrent => off + Max(r, pos) <= MaxSeek
       /\ whence = BadWhence => off = 0
       /\ whence = SeekEnd => off <= 0
       /\ loc' = [loc EXCEPT ![self] =
                    [Fresh EXCEPT
                       !.off = off, !.off0 = off, !.whence = whence,
                       !.newPos = CASE whence = SeekStart -> off
                                    [] whence = SeekCurrent -> r + off
                                    [] whence = SeekEnd -> SeekEndPos
                                    [] OTHER -> 0,
                       !.err = IF whence = BadWhence
                                 THEN "errInvalidWhence" ELSE "nil"]]
       /\ pc' = [pc EXCEPT ![self] = IF whence = BadWhence THEN "ret" ELSE "sk_test"]
  /\ op' = [op EXCEPT ![self] = "Seek"]
  /\ seekUsed' = (consumers = {"c1"})
  /\ seqlog' = <<>>
  /\ UNCHANGED <<shared, consumers, nfin, nwrites>>

\* SeekTest without the loop: Seek goes straight to f.file.Seek.
SeekTestNoWait(self) ==
  /\ Running /\ pc[self] = "sk_test"
  /\ pc' = [pc EXCEPT ![self] = "sk_io"]
  /\ UNCHANGED <<shared, op, loc, ghost>>

\* for !f.done && f.w < newPos { <-f.ready }
SeekTest(self) ==
  /\ Running /\ pc[self] = "sk_test"
  /\ pc' = [pc EXCEPT ![self] =
              IF ~done /\ w < loc[self].newPos THEN "recv" ELSE "sk_io"]
  /\ UNCHANGED <<shared, op, loc, ghost>>

\* f.r, err = f.file.Seek(off, whence); return f.r, err.  os.File.Seek
\* returns (0, err) and leaves its offset alone when the file is closed or
\* the target is negative.
SeekIO(self) ==
  /\ Running /\ pc[self] = "sk_io"
  /\ LET l == loc[self]
         target == CASE l.whence = SeekStart -> l.off
                     [] l.whence = SeekCurrent -> pos + l.off
                     [] OTHER -> Len(data) + l.off
         err == IF ~fopen THEN "ErrClosed"
                ELSE IF target < 0 THEN "EINVAL" ELSE "nil"
     IN /\ pos' = IF err = "nil" THEN target ELSE pos
        /\ r' = IF err = "nil" THEN target ELSE 0
        /\ loc' = [loc EXCEPT ![self].n = r', ![self].err = err]
  /\ pc' = [pc EXCEPT ![self] = "ret"]
  /\ UNCHANGED <<w, done, closed, readyClosed, data, fopen, panicked, op, ghost>>

\* ------------------------------------------------------------- Wait, Size
WaitCall(self) ==
  /\ MayCall(self) /\ Counted(self)
  /\ \E m \in {"Wait", "Size"} : op' = [op EXCEPT ![self] = m]
  /\ loc' = [loc EXCEPT ![self] = Fresh]
  /\ pc' = [pc EXCEPT ![self] = "wt_test"]
  /\ UNCHANGED <<shared, consumers, nfin, nwrites, seekUsed, seqlog>>

\* WaitTest without the loop: Wait returns whatever f.done is.
WaitTestNoWait(self) ==
  /\ Running /\ pc[self] = "wt_test"
  /\ pc' = [pc EXCEPT ![self] = IF op[self] = "Size" THEN "sz_read" ELSE "ret"]
  /\ UNCHANGED <<shared, op, loc, ghost>>

\* Wait: for !f.done { <-f.ready }
WaitTest(self) ==
  /\ Running /\ pc[self] = "wt_test"
  /\ pc' = [pc EXCEPT ![self] =
              IF ~done THEN "recv"
              ELSE IF op[self] = "Size" THEN "sz_read" ELSE "ret"]
  /\ UNCHANGED <<shared, op, loc, ghost>>

\* Size: return f.w
SizeRead(self) ==
  /\ Running /\ pc[self] = "sz_read"
  /\ loc' = [loc EXCEPT ![self].n = w]
  /\ pc' = [pc EXCEPT ![self] = "ret"]
  /\ UNCHANGED <<shared, op, ghost>>

\* ------------------------------------------------------------------- Next
Next ==
  \E self \in Threads :
    \/ WriteCall(self) \/ WriteChk(self) \/ WriteIO(self) \/ WriteAdv(self)
    \/ WriteWake(self)
    \/ DoneCall(self) \/ DoneChk(self) \/ DoneSet(self) \/ DoneClose(self)
    \/ CloseCall(self) \/ CloseFile(self) \/ CloseSet(self) \/ CloseFs(self)
    \/ ReadCall(self) \/ BlockTestW(self) \/ BlockTestDone(self) \/ Recv(self)
    \/ ReadSub(self) \/ ReadIO(self) \/ ReadAdv(self)
    \/ ReadAtCall(self) \/ ReadAtIO(self)
    \/ SeekCall(self) \/ SeekTest(self) \/ SeekIO(self)
    \/ WaitCall(self) \/ WaitTest(self) \/ SizeRead(self)
    \/ Return(self)

Spec == Init /\ [][Next]_vars

SpecPair == InitPair /\ [][Next]_vars

SpecCloser == InitCloser /\ [][Next]_vars

\* The statements of a call in progress, as opposed to the start of a call:
\* the Go scheduler runs every runnable goroutine again and again, while
\* nothing makes a caller call.
Step(self) ==
  \/ WriteChk(self) \/ WriteIO(self) \/ WriteAdv(self) \/ WriteWake(self)
  \/ DoneChk(self) \/ DoneSet(self) \/ DoneClose(self)
  \/ CloseFile(self) \/ CloseSet(self) \/ CloseFs(self)
  \/ BlockTestW(self) \/ BlockTestDone(self) \/ Recv(self)
  \/ ReadSub(self) \/ ReadIO(self) \/ ReadAdv(self) \/ ReadAtIO(self)
  \/ SeekTest(self) \/ SeekIO(self) \/ WaitTest(self) \/ SizeRead(self)
  \/ Return(self)

Fairness == \A t \in Threads : WF_vars(Step(t))

FairSpec == Spec /\ Fairness

FairSpecPair == SpecPair /\ Fairness

FairSpecCloser == SpecCloser /\ Fairness

\* ================================================================ claims
AtRet(t, m) == pc[t] = "ret" /\ op[t] = m

\* C1: with one reader that only calls Read, on a file that is never
\* closed, a Read that returns EOF has been preceded by Reads that
\* delivered, in order, every byte the writer stored.
C1_FullReadIsWritten ==
  \A c \in consumers :
    (AtRet(c, "Read") /\ loc[c].err = "EOF" /\ ~seekUsed /\ fopen
       /\ consumers = {"c1"})
      => seqlog = data

\* C2: the bytes a storage read of Read or ReadAt delivers lie strictly
\* below f.w as it stands at that step, and Read delivers at most
\* min(len(p), f.w - f.r) bytes.
C2_ReadsBelowWriteOffset ==
  [][\A c \in AllConsumers :
       /\ (pc[c] = "rd_io" /\ pc'[c] = "rd_adv" /\ loc'[c].n > 0)
            => /\ pos + loc'[c].n <= w
               /\ loc'[c].n <= Min(loc[c].plen, w - r)
       /\ (pc[c] = "ra_io" /\ loc'[c].off > loc[c].off)
            => loc'[c].off <= w]_vars

\* C3: one reader; once a Write has run to its end with f.w past
\* off + len(p), a Read or ReadAt that began earlier is not left parked in
\* <-f.ready, where only a later Write or DoneWriting could release it.
C3_NoLostWakeup ==
  \A c \in consumers :
    ~ /\ consumers = {"c1"}
      /\ pc[c] = "parked" /\ op[c] \in {"Read", "ReadAt"}
      /\ pc[Writer] = "idle" /\ ~done
      /\ w > loc[c].off0 /\ w >= loc[c].off0 + loc[c].plen

\* C4: the wake of a Write releases every reader parked at an offset below
\* the new f.w, whoever else is parked.
C4_WriteWakesAll ==
  [][(pc[Writer] = "w_wake" /\ pc'[Writer] = "ret")
       => \A c \in AllConsumers :
            (pc[c] = "parked" /\ op[c] \in {"Read", "ReadAt"} /\ loc[c].off < w)
              => pc'[c] # "parked"]_vars

\* C5: a caller whose receive on f.ready returned because the channel was
\* closed goes on to return: while it is in its call it has a next
\* statement to run.
C5_ReleasedCallersReturn ==
  \A c \in AllConsumers :
    (pc[c] \notin {"idle", "ret"} /\ loc[c].byClose) => ENABLED Step(c)

\* C6: a Read or ReadAt that begins after DoneWriting has returned never
\* reaches the receive on f.ready, and, unless the File is closed, returns
\* (0, EOF) when its start position is at or past the final size.
C6_AfterDoneNoPark ==
  \A c \in AllConsumers :
    (op[c] \in {"Read", "ReadAt"} /\ loc[c].late)
      => /\ pc[c] \notin {"recv", "parked"}
         /\ (pc[c] = "ret" /\ loc[c].off0 >= w
               /\ loc[c].err # "errAlreadyClosed")
              => (loc[c].n = 0 /\ loc[c].err = "EOF")

\* C7: a ReadAt at an offset >= 0 of an open file returns (len(p), nil) with
\* the bytes stored at [off, off+len(p)), or else (n, EOF) with the stream
\* finalized, n short of len(p) and n = max(0, final size - off).
C7_ReadAtAllOrEOF ==
  \A c \in AllConsumers :
    (AtRet(c, "ReadAt") /\ loc[c].off0 >= 0
       /\ loc[c].err \notin {"errAlreadyClosed", "ErrClosed"})
      => \/ /\ loc[c].n = loc[c].plen /\ loc[c].err = "nil"
            /\ loc[c].got = Slice(data, loc[c].off0, loc[c].plen)
         \/ /\ loc[c].err = "EOF" /\ done
            /\ loc[c].plen > 0 => loc[c].n < loc[c].plen
            /\ loc[c].n = Max(0, w - loc[c].off0)

\* C8: no Read or ReadAt returns EOF while the stream is not finalized.
C8_EOFOnlyWhenFinalized ==
  \A c \in AllConsumers :
    (pc[c] = "ret" /\ op[c] \in {"Read", "ReadAt"} /\ loc[c].err = "EOF")
      => done

\* C9: Wait and Size return only once the stream is finalized, and what
\* Size returned is the final f.w, the number of bytes stored.
C9_SizeIsFinal ==
  \A c \in AllConsumers :
    /\ (pc[c] = "ret" /\ op[c] \in {"Wait", "Size"}) => done
    /\ AtRet(c, "Size") => (loc[c].n = w /\ w = Len(data))

C11_AfterCloseAlreadyClosed ==
  \A t \in Threads :
    (op[t] \in {"Read", "ReadAt", "Write"} /\ loc[t].shut)
      => /\ pc[t] \in {"w_chk", "ret"}
         /\ pc[t] = "ret"
              => (loc[t].n = 0 /\ loc[t].err = "errAlreadyClosed")

C14_SeekFromEnd ==
  \A c \in AllConsumers :
    (op[c] = "Seek" /\ loc[c].whence = SeekEnd)
      => /\ pc[c] \in {"sk_io", "ret"} => done
         /\ (pc[c] = "ret" /\ loc[c].err # "ErrClosed")
              => IF w + loc[c].off0 >= 0
                   THEN /\ loc[c].err = "nil"
                        /\ loc[c].n = w + loc[c].off0 /\ r = loc[c].n
                   ELSE loc[c].err = "errInvalidOffset"

C16_ClosedAfterFailedClose ==
  \A t \in {Writer, Closer} :
    (pc[t] = "ret" /\ op[t] \in Closing /\ loc[t].err # "nil") => closed

\* C17: the goroutine in Write, DoneWriting, Close or Move never stands at
\* the receive on f.ready; while it is in its call it has a statement it
\* can run, whoever is or is not parked; and every statement takes it
\* forward in the method, so that the call is over after at most seven.
C17_WriterNeverParks ==
  [][LET rank == [idle |-> 0, w_chk |-> 1, w_io |-> 2, w_adv |-> 3,
                  w_wake |-> 4, d_chk |-> 1, d_set |-> 2, d_close |-> 3,
                  c_fclose |-> 4, c_set |-> 5, c_fs |-> 6, ret |-> 7]
     IN \A t \in {Writer, Closer} :
          /\ pc'[t] \in DOMAIN rank
          /\ (pc'[t] # "idle") => (ENABLED Step(t))'
          /\ (pc'[t] # pc[t] /\ pc'[t] # "idle")
               => rank[pc'[t]] > rank[pc[t]]]_vars

\* C18: f.w never decreases; the statement f.w += n of a Write adds the
\* count that Write goes on to return; f.done never goes back to false;
\* and once f.done is set f.w keeps its value, also when DoneWriting or
\* Close is called by another goroutine than the producer.
C18_WriteOffsetFrozen ==
  [][/\ w' >= w
     /\ done => done'
     /\ done => w' = w
     /\ (pc[Writer] = "w_adv" /\ pc'[Writer] = "w_wake")
          => w' = w + loc[Writer].n
     /\ (pc[Writer] \in {"w_adv", "w_wake"} /\ pc'[Writer] # pc[Writer])
          => loc'[Writer].n = loc[Writer].n]_vars

\* C19: a Seek that returns an error leaves f.r as it was, and whenever the
\* lone consumer of an open File is between calls, f.r is the os.File's own
\* offset, the place the next Read reads at.
C19_FailedSeekKeepsCursor ==
  [][/\ \A c \in AllConsumers :
          (op'[c] = "Seek" /\ pc[c] # "ret" /\ pc'[c] = "ret"
             /\ loc'[c].err # "nil")
            => r' = r
     /\ (consumers = {"c1"} /\ fopen' /\ pc'["c1"] = "idle") => r' = pos']_vars

\* C20: the process never panics on the wake channel: no send on f.ready
\* after it was closed, and no second close of it.
C20_NoChannelPanic ==
  panicked \notin {"send on closed channel", "close of closed channel"}

\* ------------------------------------------------------------- witnesses
\* A Read or ReadAt with a non-empty buffer, begun after DoneWriting
\* returned at or past the final size of a non-empty stream, has returned
\* EOF.
C6_Witness ==
  \E c \in AllConsumers :
    /\ pc[c] = "ret" /\ op[c] \in {"Read", "ReadAt"}
    /\ loc[c].late /\ loc[c].plen > 0 /\ w > 0 /\ loc[c].off0 >= w
    /\ loc[c].err = "EOF"

\* A Size call begun before the stream was finalized has returned 2 after
\* two Writes.
C9_Witness ==
  \E c \in AllConsumers :
    AtRet(c, "Size") /\ ~loc[c].late /\ loc[c].n = 2 /\ nwrites = 2

C17_Witness ==
  /\ AtRet(Writer, "Write") /\ loc[Writer].n = 1 /\ loc[Writer].err = "nil"
  /\ Parked = {} /\ ncalls = 0

====
